---- MODULE Spec2Model ----
(***************************************************************************)
(* Recursive traversal and aggregation over a directory tree               *)
(* (analysis.py, navigation.py, utils.py).  A file system is a small tree  *)
(* of directory, file and link entries; every traversal function of the   *)
(* program is an operator over it, translated from its code, and every    *)
(* operation of the program is one action that stores the returned value. *)
(*                                                                         *)
(* Strings are sequences of character codes, so that lower(), the sort    *)
(* keys and the order on full paths are computed, not assumed.             *)
(***************************************************************************)
EXTENDS Integers, Sequences, FiniteSets, TLC

VARIABLES fs, op, arg, res, listed, again, current_path, should_continue

vars == <<fs, op, arg, res, listed, again, current_path, should_continue>>

(***************************************************************************)
(* Bounds                                                                  *)
(***************************************************************************)
\* file sizes are 1..MaxSize bytes
MaxSize == 2
\* a path is resolved through at most LinkLimit links (ELOOP beyond)
LinkLimit == 2
\* the n of _get_largest_files ranges over 0..MaxN
MaxN == 2

(***************************************************************************)
(* Strings                                                                 *)
(***************************************************************************)
\* os.sep of the target platform, the backslash
Sep == 92

\* str.lower() on one character code
LowerChar(c) == IF c >= 65 /\ c <= 90 THEN c + 32 ELSE c

\* str.lower()
Lower(s) == [i \in 1..Len(s) |-> LowerChar(s[i])]

Min(a, b) == IF a <= b THEN a ELSE b

\* s < t for Python strings: the first differing character decides,
\* a proper prefix is smaller
LexLess(s, t) ==
    \E k \in 1..(Min(Len(s), Len(t)) + 1) :
        /\ \A j \in 1..(k - 1) : s[j] = t[j]
        /\ \/ (k <= Len(s) /\ k <= Len(t) /\ s[k] < t[k])
           \/ (k = Len(s) + 1 /\ k <= Len(t))

\* os.path.join(path, name)
Join(path, name) == path \o <<Sep>> \o name

(***************************************************************************)
(* The file system: the entries that may exist, their places and names    *)
(***************************************************************************)
Root == "root"
DirSlots == {"sub", "e"}
FileSlots == {"a", "b", "c", "F", "n"}
LinkSlots == {"lnk", "up"}
Slots == DirSlots \cup FileSlots \cup LinkSlots

\* the entries of the drive that holds the Windows directories: the Windows
\* directory with System32 and SysWOW64 in it, and the two Program Files
\* directories
SystemDirSlots == {"Windows", "System32", "SysWOW64", "ProgramFiles", "ProgramFilesX86"}
SystemFileSlots == {"notepad", "setup", "kernel32", "null", "app"}

\* the directory an entry lives in
Parent(s) ==
    CASE s \in {"sub", "a", "b", "n", "lnk", "long"} -> Root
      [] s \in {"Windows", "ProgramFiles", "ProgramFilesX86"} -> Root
      [] s \in {"System32", "SysWOW64", "notepad", "setup"} -> "Windows"
      [] s = "kernel32" -> "System32"
      [] s = "null" -> "SysWOW64"
      [] s = "app" -> "ProgramFiles"
      [] s \in {"e", "c"} -> "sub"
      [] s \in {"below", "at", "over"} -> "long"
      [] s \in {"F", "up"} -> "e"

\* validate_windows_path rejects a path string of PathLimit characters or
\* more
PathLimit == 260

\* a name of n characters c
Pad(c, n) == [i \in 1..n |-> c]

\* the lengths of the names of the directories long and long\below: the
\* path C:\long\below is PathLimit - 1 characters long
LongLen == PathLimit - 60
BelowLen == (PathLimit - 1) - (3 + LongLen + 1)

\* the leaf name of an entry
Name(s) ==
    CASE s = "sub" -> <<115, 117, 98>>             \* sub
      [] s = "e"   -> <<101>>                      \* e
      [] s = "a"   -> <<97, 46, 116, 120, 116>>    \* a.txt
      [] s = "b"   -> <<98, 46, 84, 88, 84>>       \* b.TXT
      [] s = "c"   -> <<99, 46, 98, 105, 110>>     \* c.bin
      [] s = "F"   -> <<66, 46, 84, 88, 84>>       \* B.TXT
      [] s = "n"   -> <<82, 69, 65, 68, 77, 69>>   \* README
      [] s = "lnk" -> <<108, 110, 107>>            \* lnk
      [] s = "up"  -> <<117, 112>>                 \* up
      [] s = "long"  -> Pad(120, LongLen)          \* xxx...
      [] s = "below" -> Pad(112, BelowLen)         \* ppp...
      [] s = "at"    -> Pad(112, BelowLen + 1)
      [] s = "over"  -> Pad(112, BelowLen + 2)
      [] s = "Windows" -> <<87, 105, 110, 100, 111, 119, 115>>  \* Windows
      [] s = "System32" -> <<83, 121, 115, 116, 101, 109, 51, 50>>  \* System32
      [] s = "SysWOW64" -> <<83, 121, 115, 87, 79, 87, 54, 52>>  \* SysWOW64
      [] s = "ProgramFiles" -> <<80, 114, 111, 103, 114, 97, 109, 32, 70, 105, 108, 101, 115>>  \* Program Files
      [] s = "ProgramFilesX86" -> <<80, 114, 111, 103, 114, 97, 109, 32, 70, 105, 108, 101, 115, 32, 40, 120, 56, 54, 41>>  \* Program Files (x86)
      [] s = "notepad" -> <<110, 111, 116, 101, 112, 97, 100, 46, 101, 120, 101>>  \* notepad.exe
      [] s = "setup" -> <<115, 101, 116, 117, 112, 46, 108, 111, 103>>  \* setup.log
      [] s = "kernel32" -> <<107, 101, 114, 110, 101, 108, 51, 50, 46, 100, 108, 108>>  \* kernel32.dll
      [] s = "null" -> <<110, 117, 108, 108, 46, 83, 89, 83>>  \* null.SYS
      [] s = "app" -> <<97, 112, 112, 46, 101, 120, 101>>  \* app.exe

\* the path string the traversal starts from
RootPath == <<114, 111, 111, 116>>                 \* root

\* the directories a link entry may point to: lnk points down the tree,
\* up points back to an ancestor of the directory that holds it
Targets(l) == IF l = "lnk" THEN {"sub", "e"} ELSE {Root, "sub"}

\* root: "ok" a listable directory, "denied" a directory that may be
\*       neither listed nor entered, "missing" no such path, "file" a
\*       regular file
\* acc:  per directory "rx" listable, "x" not listable but its children can
\*       be reached by name, "none" neither
RootStates == {"ok", "denied", "missing", "file"}
Access == {"rx", "x", "none"}

\* the real directories above and including directory d
RECURSIVE Chain(_)
Chain(d) == IF d = Root THEN {Root} ELSE {d} \cup Chain(Parent(d))

WellFormed(f) ==
    /\ \A s \in f.present : Parent(s) = Root \/ Parent(s) \in f.present
    /\ f.root \in {"missing", "file"} => f.present = {}
    /\ \A s \in FileSlots \ f.present : f.size[s] = 1
    /\ \A s \in DirSlots \ f.present : f.acc[s] = "rx"
    /\ \A s \in LinkSlots \ f.present : f.target[s] = CHOOSE t \in Targets(s) : TRUE

FileSystems ==
    { f \in [ root : RootStates,
              present : SUBSET Slots,
              size : [FileSlots -> 1..MaxSize],
              acc : [DirSlots -> Access],
              target : [LinkSlots -> {Root} \cup DirSlots] ] :
        /\ \A l \in LinkSlots : f.target[l] \in Targets(l)
        /\ "b" \notin f.present
        /\ "n" \notin f.present
        /\ WellFormed(f) }

\* the trees around the shape root/{a.txt, b.TXT, sub/{c.bin}}: every
\* directory listable, no link, each file absent or of one of these sizes
ScenarioSizes == {10, 50, 100}

ScenarioSystems ==
    { f \in [ root : {"ok"},
              present : SUBSET (FileSlots \cup DirSlots),
              size : [FileSlots -> {1} \cup ScenarioSizes],
              acc : [DirSlots -> {"rx"}],
              target : [LinkSlots -> {Root} \cup DirSlots] ] :
        /\ "sub" \in f.present
        /\ \A s \in f.present \cap FileSlots : f.size[s] \in ScenarioSizes
        /\ WellFormed(f) }

(***************************************************************************)
(* Paths: the root followed by the entries joined below it                  *)
(***************************************************************************)
\* str of a path: RootPath joined with the names of its components
RECURSIVE PathStr(_)
PathStr(p) ==
    IF p = <<>> THEN RootPath
    ELSE Join(PathStr(SubSeq(p, 1, Len(p) - 1)), Name(p[Len(p)]))

\* number of link entries among the components of a path
LinkCount(p) == Cardinality({i \in 1..Len(p) : p[i] \in LinkSlots})

\* the directory (Root or a directory slot) a path of entries leads to;
\* the last component decides: a link leads to its target
NodeOf(f, p) ==
    IF p = <<>> THEN Root
    ELSE IF p[Len(p)] \in LinkSlots THEN f.target[p[Len(p)]]
    ELSE p[Len(p)]

\* every real directory strictly above d allows reaching its children
Reachable(f, d) ==
    /\ d = Root \/ d \in f.present
    /\ \A x \in Chain(d) \ {d, Root} : f.acc[x] # "none"

\* os.stat(path) succeeds for the entry s appended to the listed path p
StatOk(f, p, s) ==
    IF s \in LinkSlots
    THEN /\ LinkCount(p) + 1 <= LinkLimit
         /\ Reachable(f, f.target[s])
    ELSE TRUE

\* os.path.islink(path)
islink(p) == p # <<>> /\ p[Len(p)] \in LinkSlots

\* the directory at path p can be listed
Listable(f, p) ==
    LET d == NodeOf(f, p) IN
    IF d = Root THEN f.root = "ok"
    ELSE f.root = "ok" /\ Reachable(f, d) /\ f.acc[d] = "rx"

\* utils.safe_windows_listdir: the children, or the empty list on any error
safe_windows_listdir(f, p) ==
    IF Listable(f, p)
    THEN {s \in f.present : Parent(s) = NodeOf(f, p)}
    ELSE {}

(***************************************************************************)
(* navigation.list_directory                                               *)
(***************************************************************************)
\* the dictionary built for one child: name, type, size and the entry the
\* full path is joined from ('modified' is read by no traversal modelled
\* here, 'hidden' is is_hidden_windows_file of the entry); a child whose
\* stat fails is skipped
ItemInfo(f, p, s) ==
    [name |-> Name(s),
     type |-> IF s \in FileSlots \cup SystemFileSlots THEN "file" ELSE "dir",
     size |-> IF s \in FileSlots \cup SystemFileSlots THEN f.size[s] ELSE 0,
     slot |-> s]

\* KeyLess with .lower() left out of the key
KeyLess_NoLower(x, y) ==
    \/ x.type = "dir" /\ y.type # "dir"
    \/ /\ (x.type = "dir") = (y.type = "dir")
       /\ LexLess(x.name, y.name)

\* key=lambda x: (x['type'] != 'dir', x['name'].lower())
KeyLess(x, y) ==
    \/ x.type = "dir" /\ y.type # "dir"
    \/ /\ (x.type = "dir") = (y.type = "dir")
       /\ LexLess(Lower(x.name), Lower(y.name))

\* list.sort by that key; no two entries of one directory of the tree have
\* the same key
RECURSIVE SortItems(_)
SortItems(S) ==
    IF S = {} THEN <<>>
    ELSE LET m == CHOOSE x \in S : \A y \in S \ {x} : ~KeyLess(y, x)
         IN <<m>> \o SortItems(S \ {m})

\* list_directory with an entry made for every child, also for one whose
\* stat fails
list_directory_NoSkip(f, p) ==
    LET items_paths == safe_windows_listdir(f, p)
        items_info == {ItemInfo(f, p, s) : s \in items_paths}
    IN [success |-> TRUE, items |-> SortItems(items_info)]

list_directory(f, p) ==
    LET items_paths == safe_windows_listdir(f, p)
        items_info == {ItemInfo(f, p, s) : s \in {c \in items_paths : StatOk(f, p, c)}}
    IN [success |-> TRUE, items |-> SortItems(items_info)]

(***************************************************************************)
(* analysis.count_files                                                    *)
(***************************************************************************)
RECURSIVE count_files(_, _)
RECURSIVE count_files_loop(_, _, _, _)

\* the for loop over items[i..]: the count it adds and the paths it lists
count_files_loop(f, p, items, i) ==
    IF i > Len(items) THEN [count |-> 0, listed |-> {}]
    ELSE LET item == items[i]
             full_path == Append(p, item.slot)
             rest == count_files_loop(f, p, items, i + 1)
         IN IF item.type = "dir"
            THEN LET sub == count_files(f, full_path)
                 IN [count |-> (IF sub.success THEN sub.count ELSE 0) + rest.count,
                     listed |-> sub.listed \cup rest.listed]
            ELSE [count |-> 1 + rest.count, listed |-> rest.listed]

\* count_files with the test "not items" left out of line 40
count_files_NoEmptyCheck(f, p) ==
    LET ld == list_directory(f, p)
    IN IF ~ld.success
       THEN [success |-> FALSE, count |-> 0, listed |-> {p}]
       ELSE LET r == count_files_loop(f, p, ld.items, 1)
            IN [success |-> TRUE, count |-> r.count, listed |-> {p} \cup r.listed]

\* utils.safe_windows_listdir(path) is also called first (line 35); it always
\* returns a list, so the isinstance test never fails and it changes nothing
count_files(f, p) ==
    LET ld == list_directory(f, p)
    IN IF ~ld.success \/ ld.items = <<>>
       THEN [success |-> FALSE, count |-> 0, listed |-> {p}]
       ELSE LET r == count_files_loop(f, p, ld.items, 1)
            IN [success |-> TRUE, count |-> r.count, listed |-> {p} \cup r.listed]

(***************************************************************************)
(* analysis.count_bytes                                                    *)
(***************************************************************************)
RECURSIVE count_bytes(_, _)
RECURSIVE count_bytes_loop(_, _, _, _)

\* count_bytes_loop with the islink test of lines 92-94 left out
count_bytes_loop_FollowLinks(f, p, items, i) ==
    IF i > Len(items) THEN [total |-> 0, listed |-> {}]
    ELSE LET item == items[i]
             full_path == Append(p, item.slot)
             rest == count_bytes_loop(f, p, items, i + 1)
         IN IF item.type = "dir"
            THEN LET sub == count_bytes(f, full_path)
                 IN [total |-> (IF sub.success THEN sub.total ELSE 0) + rest.total,
                     listed |-> sub.listed \cup rest.listed]
            ELSE [total |-> item.size + rest.total, listed |-> rest.listed]

\* the for loop over items[i..]: the bytes it adds and the paths it lists
count_bytes_loop(f, p, items, i) ==
    IF i > Len(items) THEN [total |-> 0, listed |-> {}]
    ELSE LET item == items[i]
             full_path == Append(p, item.slot)
             rest == count_bytes_loop(f, p, items, i + 1)
         IN IF item.type = "dir"
            THEN IF islink(full_path)
                 THEN rest
                 ELSE LET sub == count_bytes(f, full_path)
                      IN [total |-> (IF sub.success THEN sub.total ELSE 0) + rest.total,
                          listed |-> sub.listed \cup rest.listed]
            ELSE [total |-> item.size + rest.total, listed |-> rest.listed]

count_bytes(f, p) ==
    LET ld == list_directory(f, p)
    IN IF ~ld.success \/ ld.items = <<>>
       THEN [success |-> FALSE, total |-> 0, listed |-> {p}]
       ELSE LET r == count_bytes_loop(f, p, ld.items, 1)
            IN [success |-> TRUE, total |-> r.total, listed |-> {p} \cup r.listed]

(***************************************************************************)
(* analysis.analyze_windows_file_types                                     *)
(***************************************************************************)
Dot == 46

\* the sentinel key '(no extension)'
NoExtension == <<40, 110, 111, 32, 101, 120, 116, 101, 110, 115, 105, 111, 110, 41>>

\* os.path.splitext(name)[1]: from the last dot on, unless only dots
\* precede it (a leading dot starts no extension)
splitext(name) ==
    LET dots == {i \in 1..Len(name) : name[i] = Dot}
    IN IF dots = {} THEN <<>>
       ELSE LET last == CHOOSE i \in dots : \A j \in dots : j <= i
            IN IF \E j \in 1..(last - 1) : name[j] # Dot
               THEN SubSeq(name, last, Len(name))
               ELSE <<>>

\* ExtKey with .lower() left out
ExtKey_NoLower(name) ==
    LET ext == splitext(name)
    IN IF ext # <<>> THEN ext ELSE NoExtension

\* the normalised key of a file name
ExtKey(name) ==
    LET ext == splitext(name)
    IN IF ext # <<>> THEN Lower(ext) ELSE NoExtension

\* AddStat with the size assigned where it should be added
AddStat_Overwrite(stats, ext, c, s) ==
    [k \in DOMAIN stats \cup {ext} |->
        IF k = ext
        THEN [count |-> (IF k \in DOMAIN stats THEN stats[k].count ELSE 0) + c,
              size |-> s,
              ext |-> ext]
        ELSE stats[k]]

\* stats[ext]['count'] += c; stats[ext]['size'] += s; stats[ext]['ext'] = ext
\* on a defaultdict whose default is count 0, size 0
AddStat(stats, ext, c, s) ==
    [k \in DOMAIN stats \cup {ext} |->
        IF k = ext
        THEN [count |-> (IF k \in DOMAIN stats THEN stats[k].count ELSE 0) + c,
              size |-> (IF k \in DOMAIN stats THEN stats[k].size ELSE 0) + s,
              ext |-> ext]
        ELSE stats[k]]

\* for ext, sub_data in sub_stats.items(): add sub_data to stats[ext]
RECURSIVE MergeStats(_, _)
MergeStats(stats, sub_stats) ==
    IF DOMAIN sub_stats = {} THEN stats
    ELSE LET ext == CHOOSE k \in DOMAIN sub_stats : TRUE
             rest == [k \in DOMAIN sub_stats \ {ext} |-> sub_stats[k]]
         IN MergeStats(AddStat(stats, ext, sub_stats[ext].count, sub_stats[ext].size), rest)

\* the empty dictionary
EmptyDict == [k \in {} |-> 0]

RECURSIVE analyze_windows_file_types(_, _)
RECURSIVE analyze_loop(_, _, _, _, _)

\* analyze_loop with the islink test of lines 138-141 left out
analyze_loop_FollowLinks(f, p, items, i, stats) ==
    IF i > Len(items) THEN [stats |-> stats, listed |-> {}]
    ELSE LET item == items[i]
             full_path == Append(p, item.slot)
         IN IF item.type = "dir"
            THEN LET sub == analyze_windows_file_types(f, full_path)
                     merged == IF sub.success THEN MergeStats(stats, sub.stats) ELSE stats
                     rest == analyze_loop(f, p, items, i + 1, merged)
                 IN [stats |-> rest.stats, listed |-> sub.listed \cup rest.listed]
            ELSE analyze_loop(f, p, items, i + 1,
                              AddStat(stats, ExtKey(item.name), 1, item.size))

\* the for loop over items[i..] with the dictionary built so far
analyze_loop(f, p, items, i, stats) ==
    IF i > Len(items) THEN [stats |-> stats, listed |-> {}]
    ELSE LET item == items[i]
             full_path == Append(p, item.slot)
         IN IF item.type = "dir"
            THEN IF islink(full_path)
                 THEN analyze_loop(f, p, items, i + 1, stats)
                 ELSE LET sub == analyze_windows_file_types(f, full_path)
                          merged == IF sub.success THEN MergeStats(stats, sub.stats) ELSE stats
                          rest == analyze_loop(f, p, items, i + 1, merged)
                      IN [stats |-> rest.stats, listed |-> sub.listed \cup rest.listed]
            ELSE analyze_loop(f, p, items, i + 1,
                              AddStat(stats, ExtKey(item.name), 1, item.size))

analyze_windows_file_types(f, p) ==
    LET ld == list_directory(f, p)
    IN IF ~ld.success \/ ld.items = <<>>
       THEN [success |-> FALSE, stats |-> EmptyDict, listed |-> {p}]
       ELSE LET r == analyze_loop(f, p, ld.items, 1, EmptyDict)
            IN [success |-> TRUE, stats |-> r.stats, listed |-> {p} \cup r.listed]

(***************************************************************************)
(* analysis._get_largest_files                                             *)
(***************************************************************************)
RECURSIVE collect_files(_, _)
RECURSIVE collect_loop(_, _, _, _)

\* the for loop over items[i..]: the (full_path, size) pairs it appends, in
\* the order it appends them, and the paths it lists
collect_loop(f, p, items, i) ==
    IF i > Len(items) THEN [files |-> <<>>, listed |-> {}]
    ELSE LET item == items[i]
             full_path == Append(p, item.slot)
             rest == collect_loop(f, p, items, i + 1)
         IN IF item.type = "dir"
            THEN IF islink(full_path)
                 THEN rest
                 ELSE LET sub == collect_files(f, full_path)
                      IN [files |-> sub.files \o rest.files,
                          listed |-> sub.listed \cup rest.listed]
            ELSE [files |-> <<(<<PathStr(full_path), item.size>>)>> \o rest.files,
                  listed |-> rest.listed]

collect_files(f, p) ==
    LET ld == list_directory(f, p)
    IN IF ~ld.success \/ ld.items = <<>>
       THEN [files |-> <<>>, listed |-> {p}]
       ELSE LET r == collect_loop(f, p, ld.items, 1)
            IN [files |-> r.files, listed |-> {p} \cup r.listed]

\* InsertBySize with reverse=True left out of the sort: ascending order
InsertBySize_Ascending(sorted, x) ==
    LET larger == {j \in 1..Len(sorted) : sorted[j][2] > x[2]}
        k == IF larger = {} THEN Len(sorted) + 1
             ELSE CHOOSE j \in larger : \A m \in larger : j <= m
    IN SubSeq(sorted, 1, k - 1) \o <<x>> \o SubSeq(sorted, k, Len(sorted))

\* x is placed behind every element whose size is not smaller: the order
\* list.sort(key=size, reverse=True) gives, equal sizes keeping their order
InsertBySize(sorted, x) ==
    LET smaller == {j \in 1..Len(sorted) : sorted[j][2] < x[2]}
        k == IF smaller = {} THEN Len(sorted) + 1
             ELSE CHOOSE j \in smaller : \A m \in smaller : j <= m
    IN SubSeq(sorted, 1, k - 1) \o <<x>> \o SubSeq(sorted, k, Len(sorted))

RECURSIVE SortBySizeDesc(_)
SortBySizeDesc(s) ==
    IF s = <<>> THEN <<>>
    ELSE InsertBySize(SortBySizeDesc(SubSeq(s, 1, Len(s) - 1)), s[Len(s)])

\* s[:n] for n >= 0
Take(s, n) == SubSeq(s, 1, Min(n, Len(s)))

\* the default of the parameter n
DefaultN == 5

\* what is left in the list of a call that ran before
files_with_size_Leftover == IF op = "_get_largest_files" THEN res ELSE <<>>

\* files_with_size = [] at the start of every call
files_with_size == <<>>

get_largest_files(f, p, n) ==
    Take(SortBySizeDesc(files_with_size \o collect_files(f, p).files), n)

(***************************************************************************)
(* search.find_by_windows_extension                                        *)
(***************************************************************************)
\* str.isspace() on one character code
IsSpace(c) == c \in {9, 10, 11, 12, 13, 32}

\* str.strip()
RECURSIVE strip(_)
strip(s) ==
    IF s = <<>> THEN s
    ELSE IF IsSpace(s[1]) THEN strip(Tail(s))
    ELSE IF IsSpace(s[Len(s)]) THEN strip(SubSeq(s, 1, Len(s) - 1))
    ELSE s

\* NormalizeExt with .lower() left out
NormalizeExt_NoLower(e) ==
    LET ext == strip(e)
    IN IF ext # <<>> /\ ext[1] = Dot THEN ext ELSE <<Dot>> \o ext

\* one requested extension: stripped, lowercased, given a leading dot
NormalizeExt(e) ==
    LET ext == Lower(strip(e))
    IN IF ext # <<>> /\ ext[1] = Dot THEN ext ELSE <<Dot>> \o ext

\* normalized_extensions, in the order of the request
normalize_extensions(extensions) ==
    [i \in 1..Len(extensions) |-> NormalizeExt(extensions[i])]

\* x in lst
InList(x, lst) == \E i \in 1..Len(lst) : lst[i] = x

RECURSIVE ext_search_recursive(_, _, _)
RECURSIVE ext_search_loop(_, _, _, _, _)

\* the for loop over items[i..]: the full paths it appends and the paths
\* it lists
ext_search_loop(f, p, items, i, normalized) ==
    IF i > Len(items) THEN [files |-> <<>>, listed |-> {}]
    ELSE LET item == items[i]
             full_path == Append(p, item.slot)
             rest == ext_search_loop(f, p, items, i + 1, normalized)
         IN IF item.type = "dir"
            THEN IF islink(full_path)
                 THEN rest
                 ELSE LET sub == ext_search_recursive(f, full_path, normalized)
                      IN [files |-> sub.files \o rest.files,
                          listed |-> sub.listed \cup rest.listed]
            ELSE IF InList(Lower(splitext(item.name)), normalized)
                 THEN [files |-> <<PathStr(full_path)>> \o rest.files,
                       listed |-> rest.listed]
                 ELSE rest

ext_search_recursive(f, p, normalized) ==
    LET ld == list_directory(f, p)
    IN IF ~ld.success \/ ld.items = <<>>
       THEN [files |-> <<>>, listed |-> {p}]
       ELSE LET r == ext_search_loop(f, p, ld.items, 1, normalized)
            IN [files |-> r.files, listed |-> {p} \cup r.listed]

find_by_windows_extension(f, extensions, p) ==
    ext_search_recursive(f, p, normalize_extensions(extensions))

\* the requests tried: ['txt'], ['.txt'], ['.TXT'], ['.bin'],
\* [' .Bin', 'txt']
ExtRequests ==
    { << <<116, 120, 116>> >>,
      << <<46, 116, 120, 116>> >>,
      << <<46, 84, 88, 84>> >>,
      << <<46, 98, 105, 110>> >>,
      << <<32, 46, 66, 105, 110>>, <<116, 120, 116>> >> }

(***************************************************************************)
(* search.find_windows_system_files                                        *)
(***************************************************************************)
\* the drives it runs on: every directory listable, no link, each entry
\* there or not
SystemTrees ==
    { [root |-> "ok",
       present |-> P,
       size |-> [s \in SystemFileSlots |-> 1],
       acc |-> [d \in SystemDirSlots |-> "rx"],
       target |-> [l \in LinkSlots |-> CHOOSE t \in Targets(l) : TRUE]] :
        P \in { Q \in SUBSET (SystemDirSlots \cup SystemFileSlots) :
                  \A s \in Q : Parent(s) = Root \/ Parent(s) \in Q } }

\* os.environ.get('WINDIR'), os.environ.get('ProgramFiles') and
\* os.environ.get('ProgramFiles(x86)') as paths of entries below the root
windir == <<"Windows">>
program_files == <<"ProgramFiles">>
program_files_x86 == <<"ProgramFilesX86">>

\* os.path.exists(path) for a path of entries
os_path_exists(f, p) ==
    /\ f.root = "ok"
    /\ \A i \in 1..Len(p) : p[i] \in f.present /\ Reachable(f, p[i])

\* ['.exe', '.dll', '.sys']
SystemExtensions ==
    << <<46, 101, 120, 101>>, <<46, 100, 108, 108>>, <<46, 115, 121, 115>> >>

\* system_directories, in the order it is built
system_directories(f) ==
    <<windir, Append(windir, "System32")>>
    \o (IF os_path_exists(f, Append(windir, "SysWOW64"))
        THEN <<Append(windir, "SysWOW64")>> ELSE <<>>)
    \o <<program_files>>
    \o (IF os_path_exists(f, program_files_x86) THEN <<program_files_x86>> ELSE <<>>)

\* the for loop over system_directories[i..]: system_files.extend(...) for
\* every directory that exists
RECURSIVE system_search_loop(_, _, _)
system_search_loop(f, dirs, i) ==
    IF i > Len(dirs) THEN <<>>
    ELSE (IF os_path_exists(f, dirs[i])
          THEN find_by_windows_extension(f, SystemExtensions, dirs[i]).files
          ELSE <<>>)
         \o system_search_loop(f, dirs, i + 1)

\* path is [given |-> FALSE] for None and for '', [given |-> TRUE, path |-> p]
\* otherwise
find_windows_system_files(f, path) ==
    IF path.given
    THEN find_by_windows_extension(f, SystemExtensions, path.path).files
    ELSE system_search_loop(f, system_directories(f), 1)

\* the path arguments tried: None, the root, the Windows directory, System32
SystemPathArgs ==
    { [given |-> FALSE, path |-> <<>>],
      [given |-> TRUE, path |-> <<>>],
      [given |-> TRUE, path |-> windir],
      [given |-> TRUE, path |-> Append(windir, "System32")] }

(***************************************************************************)
(* search.find_files_windows                                               *)
(***************************************************************************)
\* the characters fnmatch.translate gives a meaning to
Star == 42
Quest == 63
LBracket == 91
RBracket == 93
Bang == 33

\* two characters are the same to the compiled expression: re.IGNORECASE
\* unless case_sensitive
CharEq(a, b, case_sensitive) ==
    IF case_sensitive THEN a = b ELSE LowerChar(a) = LowerChar(b)

\* fnmatch.translate at a '[' at position i: the position of the ']' that
\* closes the character class, 0 when there is none and the '[' is literal
ClassEnd(pat, i) ==
    LET n == Len(pat)
        j0 == i + 1
        j1 == IF j0 <= n /\ pat[j0] = Bang THEN j0 + 1 ELSE j0
        j2 == IF j1 <= n /\ pat[j1] = RBracket THEN j1 + 1 ELSE j1
        closing == {j \in j2..n : pat[j] = RBracket}
    IN IF closing = {} THEN 0
       ELSE CHOOSE j \in closing : \A m \in closing : j <= m

\* character c is matched by the class pat[i..close]; a class of the
\* patterns tried holds single characters only, no range
InClass(pat, i, close, c, case_sensitive) ==
    LET negated == pat[i + 1] = Bang
        first == IF negated THEN i + 2 ELSE i + 1
        inSet == \E k \in first..(close - 1) : CharEq(pat[k], c, case_sensitive)
    IN inSet # negated

\* pattern_regex.match(name) continued at pat[i..] and name[j..]: the
\* expression of fnmatch.translate ends with \Z, so the whole name is matched
RECURSIVE regex_match(_, _, _, _, _)
regex_match(pat, i, name, j, case_sensitive) ==
    IF i > Len(pat) THEN j > Len(name)
    ELSE IF pat[i] = Star
    THEN \/ regex_match(pat, i + 1, name, j, case_sensitive)
         \/ /\ j <= Len(name)
            /\ regex_match(pat, i, name, j + 1, case_sensitive)
    ELSE IF pat[i] = Quest
    THEN /\ j <= Len(name)
         /\ regex_match(pat, i + 1, name, j + 1, case_sensitive)
    ELSE IF pat[i] = LBracket /\ ClassEnd(pat, i) # 0
    THEN /\ j <= Len(name)
         /\ InClass(pat, i, ClassEnd(pat, i), name[j], case_sensitive)
         /\ regex_match(pat, ClassEnd(pat, i) + 1, name, j + 1, case_sensitive)
    ELSE /\ j <= Len(name)
         /\ CharEq(pat[i], name[j], case_sensitive)
         /\ regex_match(pat, i + 1, name, j + 1, case_sensitive)

RECURSIVE find_files_recursive(_, _, _, _)
RECURSIVE find_files_loop(_, _, _, _, _, _)

\* the for loop over items[i..]: the full paths it appends and the paths
\* it lists
find_files_loop(f, p, items, i, pattern, case_sensitive) ==
    IF i > Len(items) THEN [files |-> <<>>, listed |-> {}]
    ELSE LET item == items[i]
             full_path == Append(p, item.slot)
             rest == find_files_loop(f, p, items, i + 1, pattern, case_sensitive)
         IN IF item.type = "dir"
            THEN IF islink(full_path)
                 THEN rest
                 ELSE LET sub == find_files_recursive(f, full_path, pattern,
                                                      case_sensitive)
                      IN [files |-> sub.files \o rest.files,
                          listed |-> sub.listed \cup rest.listed]
            ELSE IF regex_match(pattern, 1, item.name, 1, case_sensitive)
                 THEN [files |-> <<PathStr(full_path)>> \o rest.files,
                       listed |-> rest.listed]
                 ELSE rest

find_files_recursive(f, p, pattern, case_sensitive) ==
    LET ld == list_directory(f, p)
    IN IF ~ld.success \/ ld.items = <<>>
       THEN [files |-> <<>>, listed |-> {p}]
       ELSE LET r == find_files_loop(f, p, ld.items, 1, pattern, case_sensitive)
            IN [files |-> r.files, listed |-> {p} \cup r.listed]

\* every expression fnmatch.translate builds from the patterns tried
\* compiles, so the containment fallback is never taken
find_files_windows(f, pattern, p, case_sensitive) ==
    find_files_recursive(f, p, pattern, case_sensitive)

\* the patterns tried: '*.txt', '?.BIN', '.txt', '[ab].txt', '[!b].TXT'
Patterns ==
    { <<42, 46, 116, 120, 116>>,
      <<63, 46, 66, 73, 78>>,
      <<46, 116, 120, 116>>,
      <<91, 97, 98, 93, 46, 116, 120, 116>>,
      <<91, 33, 98, 93, 46, 84, 88, 84>> }

(***************************************************************************)
(* search.find_large_files_windows                                         *)
(***************************************************************************)
\* 1024 * 1024, the bytes of a megabyte
MB == 1024 * 1024

\* int(min_size_mb * 1024 * 1024) for min_size_mb = num / den >= 0: the
\* fraction of a byte is cut off
MinSizeBytes(num, den) == (num * MB) \div den

\* round(size / (1024 * 1024), 2), in hundredths of a megabyte; a value
\* half way between two hundredths goes to the even one
Round2(size) ==
    LET q == (size * 100) \div MB
        twice == 2 * ((size * 100) % MB)
    IN IF twice > MB \/ (twice = MB /\ q % 2 = 1) THEN q + 1 ELSE q

RECURSIVE large_search_recursive(_, _, _)
RECURSIVE large_search_loop(_, _, _, _, _)

\* the for loop over items[i..]: the dictionaries it appends and the paths
\* it lists
large_search_loop(f, p, items, i, min_size_bytes) ==
    IF i > Len(items) THEN [files |-> <<>>, listed |-> {}]
    ELSE LET item == items[i]
             full_path == Append(p, item.slot)
             rest == large_search_loop(f, p, items, i + 1, min_size_bytes)
         IN IF item.type = "dir"
            THEN IF islink(full_path)
                 THEN rest
                 ELSE LET sub == large_search_recursive(f, full_path,
                                                        min_size_bytes)
                      IN [files |-> sub.files \o rest.files,
                          listed |-> sub.listed \cup rest.listed]
            ELSE IF item.size >= min_size_bytes
                 THEN [files |-> <<[path |-> PathStr(full_path),
                                    size_mb |-> Round2(item.size),
                                    size_bytes |-> item.size,
                                    type |-> ExtKey(item.name),
                                    name |-> item.name]>> \o rest.files,
                       listed |-> rest.listed]
                 ELSE rest

large_search_recursive(f, p, min_size_bytes) ==
    LET ld == list_directory(f, p)
    IN IF ~ld.success \/ ld.items = <<>>
       THEN [files |-> <<>>, listed |-> {p}]
       ELSE LET r == large_search_loop(f, p, ld.items, 1, min_size_bytes)
            IN [files |-> r.files, listed |-> {p} \cup r.listed]

\* x is placed behind every element whose size_mb is not smaller: the order
\* large_files.sort(key=size_mb, reverse=True) gives
InsertBySizeMb(sorted, x) ==
    LET smaller == {j \in 1..Len(sorted) : sorted[j].size_mb < x.size_mb}
        k == IF smaller = {} THEN Len(sorted) + 1
             ELSE CHOOSE j \in smaller : \A m \in smaller : j <= m
    IN SubSeq(sorted, 1, k - 1) \o <<x>> \o SubSeq(sorted, k, Len(sorted))

RECURSIVE SortBySizeMb(_)
SortBySizeMb(s) ==
    IF s = <<>> THEN <<>>
    ELSE InsertBySizeMb(SortBySizeMb(SubSeq(s, 1, Len(s) - 1)), s[Len(s)])

find_large_files_windows(f, num, den, p) ==
    LET r == large_search_recursive(f, p, MinSizeBytes(num, den))
    IN [files |-> SortBySizeMb(r.files), listed |-> r.listed]

\* the thresholds tried, counted in half bytes: min_size_mb is one of
\* 0, 1.5 and 2 bytes, written in megabytes
HalfBytes == {0, 3, 4}
HalfByteUnit == 2 * MB

\* the directories list_directory is asked for directly: the root, sub, sub\e
ListPaths == {<<>>, <<"sub">>, <<"sub", "e">>}

(***************************************************************************)
(* analysis.get_windows_file_attributes_stats                              *)
(***************************************************************************)
\* the attributes GetFileAttributesW reports that the function counts
Attributes == {"hidden", "system", "readonly"}

\* the trees whose entries carry attributes: root/{a.txt, lnk -> sub,
\* sub/{c.bin}}, each entry present or not; a.txt carries any set of
\* attributes, c.bin and the directory sub none or all of them; off Windows
\* no entry carries an attribute
AttrSystems ==
    { f \in
        { [root |-> "ok",
           present |-> P,
           size |-> [s \in FileSlots |-> 1],
           acc |-> [d \in DirSlots |-> "rx"],
           target |-> [l \in LinkSlots |-> IF l = "lnk" THEN "sub" ELSE Root],
           windows |-> w,
           attrs |-> [s \in FileSlots \cup DirSlots |->
                        IF s = "a" THEN xa ELSE IF s = "c" THEN xc
                        ELSE IF s = "sub" THEN xs ELSE {}]] :
            P \in {Q \in SUBSET {"a", "c", "sub", "lnk"} : "c" \in Q => "sub" \in Q},
            w \in BOOLEAN,
            xa \in SUBSET Attributes,
            xc \in {{}, Attributes},
            xs \in {{}, Attributes} } :
        /\ \A s \in (FileSlots \cup DirSlots) \ f.present : f.attrs[s] = {}
        /\ ~f.windows => \A s \in FileSlots \cup DirSlots : f.attrs[s] = {} }

\* utils.is_windows_os()
is_windows_os(f) == f.windows

\* utils.is_hidden_windows_file(path), the 'hidden' of the dictionary
\* list_directory builds for entry s
is_hidden_windows_file(f, s) == "hidden" \in f.attrs[s]

\* one file counted under hidden, then under system and under readonly
\* as if the three tests were one if / elif chain
FileAttributes_Exclusive(f, s) ==
    [hidden |-> IF is_hidden_windows_file(f, s) THEN 1 ELSE 0,
     system |-> IF "system" \in f.attrs[s] /\ ~is_hidden_windows_file(f, s)
                THEN 1 ELSE 0,
     readonly |-> IF "readonly" \in f.attrs[s] /\ f.attrs[s] = {"readonly"}
                  THEN 1 ELSE 0]

\* what one file adds to the counters: item['hidden'], then
\* attrs & FILE_ATTRIBUTE_SYSTEM and attrs & FILE_ATTRIBUTE_READONLY, each
\* tested on its own; the attributes of a listed file can be read
FileAttributes(f, s) ==
    [hidden |-> IF is_hidden_windows_file(f, s) THEN 1 ELSE 0,
     system |-> IF "system" \in f.attrs[s] THEN 1 ELSE 0,
     readonly |-> IF "readonly" \in f.attrs[s] THEN 1 ELSE 0]

\* for key in stats: stats[key] += sub_stats[key]
AddAttrStats(stats, sub_stats) ==
    [hidden |-> stats.hidden + sub_stats.hidden,
     system |-> stats.system + sub_stats.system,
     readonly |-> stats.readonly + sub_stats.readonly]

\* stats = {'hidden': 0, 'system': 0, 'readonly': 0}
ZeroAttrStats == [hidden |-> 0, system |-> 0, readonly |-> 0]

RECURSIVE get_windows_file_attributes_stats(_, _)
RECURSIVE attr_stats_loop(_, _, _, _)

\* the for loop over items[i..]: what it adds to stats and the paths it
\* lists
attr_stats_loop(f, p, items, i) ==
    IF i > Len(items) THEN [stats |-> ZeroAttrStats, listed |-> {}]
    ELSE LET item == items[i]
             full_path == Append(p, item.slot)
             rest == attr_stats_loop(f, p, items, i + 1)
         IN IF item.type = "dir"
            THEN IF islink(full_path)
                 THEN rest
                 ELSE LET sub == get_windows_file_attributes_stats(f, full_path)
                      IN [stats |-> AddAttrStats(sub.stats, rest.stats),
                          listed |-> sub.listed \cup rest.listed]
            ELSE [stats |-> AddAttrStats(FileAttributes(f, item.slot), rest.stats),
                  listed |-> rest.listed]

get_windows_file_attributes_stats(f, p) ==
    IF ~is_windows_os(f) THEN [stats |-> ZeroAttrStats, listed |-> {}]
    ELSE LET ld == list_directory(f, p)
         IN IF ~ld.success \/ ld.items = <<>>
            THEN [stats |-> ZeroAttrStats, listed |-> {p}]
            ELSE LET r == attr_stats_loop(f, p, ld.items, 1)
                 IN [stats |-> r.stats, listed |-> {p} \cup r.listed]

(***************************************************************************)
(* Paths as strings: utils.validate_windows_path, utils.get_parent_path,   *)
(* navigation.move_up, navigation.move_down on the drive C:                *)
(***************************************************************************)
\* the root of the drive, C:\
DriveRoot == <<67, 58, 92>>

\* the entries of the drive: sub, sub\e and a.txt as before, and the
\* directory long with the directories below, at and over in it, whose
\* full paths are PathLimit - 1, PathLimit and PathLimit + 1 characters long
NavDirSlots == {"sub", "e", "long", "below", "at", "over"}
NavSlots == NavDirSlots \cup {"a"}

\* the path of entry s from the root of the drive
RECURSIVE SlotPath(_)
SlotPath(s) ==
    IF Parent(s) = Root THEN <<s>> ELSE Append(SlotPath(Parent(s)), s)

NavPaths == {<<>>} \cup {SlotPath(s) : s \in NavSlots}

\* os.path.join(path, name) of ntpath for a name without drive and without
\* leading separator: a separator is put in unless path ends with one
os_path_join(path, name) ==
    IF path = <<>> THEN name
    ELSE IF path[Len(path)] \in {Sep, 47, 58} THEN path \o name
    ELSE path \o <<Sep>> \o name

\* str of the path of entries p on the drive
RECURSIVE NavStr(_)
NavStr(p) ==
    IF p = <<>> THEN DriveRoot
    ELSE os_path_join(NavStr(SubSeq(p, 1, Len(p) - 1)), Name(p[Len(p)]))

\* the drives: a root that can be listed, every directory listable, no
\* link; the directory long comes with its three directories
NavSystems ==
    { [root |-> "ok",
       present |-> P,
       size |-> [s \in FileSlots |-> 1],
       acc |-> [d \in NavDirSlots |-> "rx"],
       target |-> [l \in LinkSlots |-> Root]] :
        P \in {Q \in SUBSET NavSlots :
                 /\ \A s \in Q : Parent(s) = Root \/ Parent(s) \in Q
                 /\ "long" \in Q => {"below", "at", "over"} \subseteq Q} }

\* the entry a path string names: the file system of the drive compares
\* names without regard to case
Lookup(f, path) ==
    LET found == {p \in NavPaths :
                    /\ Lower(NavStr(p)) = Lower(path)
                    /\ \A i \in 1..Len(p) : p[i] \in f.present}
    IN IF found = {} THEN [found |-> FALSE, path |-> <<>>]
       ELSE [found |-> TRUE, path |-> CHOOSE p \in found : TRUE]

\* Path(path).exists()
exists(f, path) == Lookup(f, path).found

\* Path(path).is_dir()
is_dir(f, path) ==
    LET r == Lookup(f, path)
    IN r.found /\ (r.path = <<>> \/ r.path[Len(r.path)] \notin FileSlots)

\* the components of a path string between separators
RECURSIVE Parts(_)
Parts(s) ==
    IF s = <<>> THEN <<>>
    ELSE LET seps == {i \in 1..Len(s) : s[i] = Sep}
         IN IF seps = {} THEN <<s>>
            ELSE LET k == CHOOSE i \in seps : \A j \in seps : i <= j
                 IN <<SubSeq(s, 1, k - 1)>> \o Parts(SubSeq(s, k + 1, Len(s)))

\* re.search(r'[<>:"|?*]', part)
HasProhibited(part) ==
    \E i \in 1..Len(part) : part[i] \in {60, 62, 58, 34, 124, 63, 42}

\* any(ord(c) < 32 for c in part)
HasControl(part) == \E i \in 1..Len(part) : part[i] < 32

\* validate_windows_path for a path on the drive C:, already in the form
\* str(Path(path)) gives it; the drive C: passes the drive test and parts[0]
\* is left out of other_parts
validate_windows_path(f, path) ==
    LET other_parts == Parts(SubSeq(path, Len(DriveRoot) + 1, Len(path)))
    IN IF ~exists(f, path)
       THEN [is_valid |-> FALSE, error |-> "Path does not exist."]
       ELSE IF \E i \in 1..Len(other_parts) : HasProhibited(other_parts[i])
       THEN [is_valid |-> FALSE, error |-> "Prohibited character(s)"]
       ELSE IF \E i \in 1..Len(other_parts) : HasControl(other_parts[i])
       THEN [is_valid |-> FALSE, error |-> "Control character"]
       ELSE IF Len(path) >= PathLimit
       THEN [is_valid |-> FALSE, error |-> "Path length exceeds 260 characters."]
       ELSE [is_valid |-> TRUE, error |-> ""]

\* str(Path(path).parent) for a path on the drive: the root of the drive is
\* its own parent
get_parent_path(path) ==
    LET seps == {i \in 1..Len(path) : path[i] = Sep}
        last == CHOOSE i \in seps : \A j \in seps : j <= i
    IN IF path = DriveRoot \/ seps = {} THEN path
       ELSE IF last <= Len(DriveRoot) THEN DriveRoot
       ELSE SubSeq(path, 1, last - 1)

move_up(f, path) ==
    IF path = <<>> THEN <<>>
    ELSE LET parent_path == get_parent_path(path)
         IN IF parent_path = path THEN parent_path
            ELSE IF validate_windows_path(f, parent_path).is_valid
            THEN parent_path
            ELSE IF validate_windows_path(f, path).is_valid THEN path
            ELSE <<>>

\* target_dir.strip('\\/ ')
RECURSIVE strip_chars(_, _)
strip_chars(s, chars) ==
    IF s = <<>> THEN s
    ELSE IF s[1] \in chars THEN strip_chars(Tail(s), chars)
    ELSE IF s[Len(s)] \in chars THEN strip_chars(SubSeq(s, 1, Len(s) - 1), chars)
    ELSE s

\* move_down with the is_dir test left out
move_down_NoDirTest(f, path, target_dir) ==
    LET target == strip_chars(target_dir, {Sep, 47, 32})
        new_path == os_path_join(path, target)
    IN IF target = <<>> THEN [success |-> FALSE, path |-> path]
       ELSE IF validate_windows_path(f, new_path).is_valid
       THEN [success |-> TRUE, path |-> new_path]
       ELSE [success |-> FALSE, path |-> path]

move_down(f, path, target_dir) ==
    LET target == strip_chars(target_dir, {Sep, 47, 32})
        new_path == os_path_join(path, target)
    IN IF target = <<>> THEN [success |-> FALSE, path |-> path]
       ELSE IF is_dir(f, new_path) /\ validate_windows_path(f, new_path).is_valid
       THEN [success |-> TRUE, path |-> new_path]
       ELSE [success |-> FALSE, path |-> path]

\* path strings that name nothing on the drive
GonePaths ==
    { <<67, 58, 92, 103, 111, 110, 101>>,         \* 'C:\gone'
      <<67, 58, 92, 103, 111, 110, 101, 92, 120>>, \* 'C:\gone\x'
      <<67, 58, 92, 97, 63, 98>> }                \* 'C:\a?b'

\* the path strings the functions are called with
NavStrings == {NavStr(p) : p \in NavPaths} \cup GonePaths

\* the names move_down is asked for
Targets_move_down ==
    { <<115, 117, 98>>,                           \* 'sub'
      <<83, 85, 66>>,                             \* 'SUB'
      <<32, 115, 117, 98, 92>>,                   \* ' sub\'
      <<101>>,                                    \* 'e'
      <<97, 46, 116, 120, 116>>,                  \* 'a.txt'
      <<122, 122, 122>>,                          \* 'zzz'
      <<>>,                                       \* ''
      <<92, 32, 47>> }                            \* '\ /'

\* int(s) succeeds: s is a string of digits
IsNumber(s) == s # <<>> /\ \A i \in 1..Len(s) : s[i] >= 48 /\ s[i] <= 57

\* int(s) for a string of digits
RECURSIVE int(_)
int(s) ==
    IF s = <<>> THEN 0
    ELSE 10 * int(SubSeq(s, 1, Len(s) - 1)) + (s[Len(s)] - 48)

\* [item for item in items if item['type'] == 'dir']
directories_of(items) == SelectSeq(items, LAMBDA item : item.type = "dir")

\* navigation.list_directory(current_path) for a path string: of a path
\* that names no directory safe_windows_listdir returns no entry
list_directory_str(f, path) ==
    LET r == Lookup(f, path)
    IN IF is_dir(f, path) THEN list_directory(f, r.path)
       ELSE [success |-> TRUE, items |-> <<>>]

\* option 1 of the navigation menu that returns whatever move_up returned
navigation_move_up_Unchecked(f, current) == move_up(f, current)

\* option 1 of the navigation menu
navigation_move_up(f, current) ==
    LET new_path == move_up(f, current)
    IN IF new_path # <<>> /\ new_path # current THEN new_path ELSE current

\* option 2 of the navigation menu, dir_choice being the name or number
\* that was typed
navigation_move_down(f, current, dir_choice_input) ==
    LET ld == list_directory_str(f, current)
        directories == directories_of(ld.items)
        dir_choice == strip(dir_choice_input)
        idx == int(dir_choice) - 1
    IN IF ~ld.success \/ ld.items = <<>> THEN current
       ELSE IF directories = <<>> THEN current
       ELSE IF IsNumber(dir_choice) /\ ~(0 <= idx /\ idx < Len(directories))
       THEN current
       ELSE LET target_dir == IF IsNumber(dir_choice)
                              THEN directories[idx + 1].name
                              ELSE dir_choice
                r == move_down(f, current, target_dir)
            IN IF r.success THEN r.path ELSE current

\* the options '1', '2' and '3' of the navigation menu
Choice1 == <<49>>
Choice2 == <<50>>
Choice3 == <<51>>

\* handle_windows_navigation: option 3 calls list_available_drives, whose
\* module navigation does not import ctypes, so the NameError it raises is
\* caught by 'except Exception' and the path is returned as it was
handle_windows_navigation(f, current, choice_input, dir_choice_input) ==
    LET choice == strip(choice_input)
    IN IF choice = Choice1 THEN navigation_move_up(f, current)
       ELSE IF choice = Choice2
       THEN navigation_move_down(f, current, dir_choice_input)
       ELSE IF choice = Choice3 THEN current
       ELSE current

\* case '1' | 'nav' | 'navigation'
NavCommands ==
    { <<49>>,                                     \* '1'
      <<110, 97, 118>>,                           \* 'nav'
      <<110, 97, 118, 105, 103, 97, 116, 105, 111, 110>> } \* 'navigation'
\* case '0' | 'exit' | 'quit'
ExitCommands ==
    { <<48>>,                                     \* '0'
      <<101, 120, 105, 116>>,                     \* 'exit'
      <<113, 117, 105, 116>> }                    \* 'quit'

\* command.lower().strip() with .lower() left out
CommandKey_NoLower(command) == strip(command)

\* command.lower().strip()
CommandKey(command) == strip(Lower(command))

\* run_windows_command: the navigation commands return the path of the
\* navigation menu, the exit commands return False, every other case of
\* the match returns (current_path, True); the handlers of the other
\* cases catch what is raised inside them
run_windows_command(f, command, current, choice_input, dir_choice_input) ==
    LET key == CommandKey(command)
    IN IF key \in NavCommands
       THEN [path |-> handle_windows_navigation(f, current, choice_input,
                                                dir_choice_input),
             should_continue |-> TRUE]
       ELSE IF key \in ExitCommands
       THEN [path |-> current, should_continue |-> FALSE]
       ELSE [path |-> current, should_continue |-> TRUE]

\* the commands typed at the prompt
Commands ==
    { <<49>>,                                     \* '1'
      <<32, 78, 65, 86>>,                         \* ' NAV'
      <<78, 97, 118, 105, 103, 97, 116, 105, 111, 110>>, \* 'Navigation'
      <<50>>,                                     \* '2'
      <<115, 116, 97, 116, 115>>,                 \* 'stats'
      <<51>>,                                     \* '3'
      <<52>>,                                     \* '4'
      <<53>>,                                     \* '5'
      <<112, 119, 100>>,                          \* 'pwd'
      <<48>>,                                     \* '0'
      <<69, 88, 73, 84, 32>>,                     \* 'EXIT '
      <<81, 117, 105, 116>>,                      \* 'Quit'
      <<101, 120, 105, 116, 32, 110, 111, 119>>,  \* 'exit now'
      <<100, 114, 105, 118, 101, 115>>,           \* 'drives'
      <<>>,                                       \* ''
      <<102, 111, 111>> }                         \* 'foo'

\* what is typed at the navigation menu
NavChoices ==
    { <<49>>,                                     \* '1'
      <<32, 50, 32>>,                             \* ' 2 '
      <<51>>,                                     \* '3'
      <<52>>,                                     \* '4'
      <<120>> }                                   \* 'x'

\* what is typed for the subdirectory
DirChoices ==
    { <<49>>,                                     \* '1'
      <<50>>,                                     \* '2'
      <<51>>,                                     \* '3'
      <<48>>,                                     \* '0'
      <<57>>,                                     \* '9'
      <<115, 117, 98>>,                           \* 'sub'
      <<32, 83, 85, 66, 92>>,                     \* ' SUB\'
      <<97, 46, 116, 120, 116>>,                  \* 'a.txt'
      <<122, 122, 122>>,                          \* 'zzz'
      <<>> }                                      \* ''

\* the directories the program is started in
StartPaths ==
    { <<67, 58, 92>>,                             \* 'C:\'
      <<67, 58, 92, 115, 117, 98>>,               \* 'C:\sub'
      <<67, 58, 92, 103, 111, 110, 101, 92, 120>> } \* 'C:\gone\x'

(***************************************************************************)
(* The program: a file system that does not change, and its operations.    *)
(* op is the operation whose result is being shown, "none" at the menu;    *)
(* res is the value it returned and listed the paths it passed to          *)
(* list_directory; again tells that the operation shown was run a second   *)
(* time on the unchanged tree; current_path is the directory the main      *)
(* loop holds and should_continue the flag its last command returned.      *)
(***************************************************************************)
Init ==
    /\ fs \in FileSystems
    /\ op = "none"
    /\ arg = 0
    /\ res = 0
    /\ listed = {}
    /\ again = FALSE
    /\ current_path = RootPath
    /\ should_continue = TRUE

CountFiles ==
    LET r == count_files(fs, <<>>) IN
    /\ op = "none"
    /\ op' = "count_files"
    /\ arg' = 0
    /\ res' = [success |-> r.success, count |-> r.count]
    /\ listed' = r.listed
    /\ again' = FALSE
    /\ UNCHANGED <<fs, current_path, should_continue>>

CountBytes ==
    LET r == count_bytes(fs, <<>>) IN
    /\ op = "none"
    /\ op' = "count_bytes"
    /\ arg' = 0
    /\ res' = [success |-> r.success, total |-> r.total]
    /\ listed' = r.listed
    /\ again' = FALSE
    /\ UNCHANGED <<fs, current_path, should_continue>>

AnalyzeTypes ==
    LET r == analyze_windows_file_types(fs, <<>>) IN
    /\ op = "none"
    /\ op' = "analyze_windows_file_types"
    /\ arg' = 0
    /\ res' = [success |-> r.success, stats |-> r.stats]
    /\ listed' = r.listed
    /\ again' = FALSE
    /\ UNCHANGED <<fs, current_path, should_continue>>

LargestFiles ==
    \E n \in (0..MaxN) \cup {DefaultN} :
        /\ op = "none"
        /\ op' = "_get_largest_files"
        /\ arg' = n
        /\ res' = get_largest_files(fs, <<>>, n)
        /\ listed' = collect_files(fs, <<>>).listed
        /\ again' = FALSE
        /\ UNCHANGED <<fs, current_path, should_continue>>

FindByExtension ==
    \E extensions \in ExtRequests :
        LET r == find_by_windows_extension(fs, extensions, <<>>) IN
        /\ op = "none"
        /\ op' = "find_by_windows_extension"
        /\ arg' = extensions
        /\ res' = r.files
        /\ listed' = r.listed
        /\ again' = FALSE
        /\ UNCHANGED <<fs, current_path, should_continue>>

FindFiles ==
    \E pattern \in Patterns, case_sensitive \in BOOLEAN :
        LET r == find_files_windows(fs, pattern, <<>>, case_sensitive) IN
        /\ op = "none"
        /\ op' = "find_files_windows"
        /\ arg' = [pattern |-> pattern, case_sensitive |-> case_sensitive]
        /\ res' = r.files
        /\ listed' = r.listed
        /\ again' = FALSE
        /\ UNCHANGED <<fs, current_path, should_continue>>

FindLargeFiles ==
    \E num \in HalfBytes :
        LET r == find_large_files_windows(fs, num, HalfByteUnit, <<>>) IN
        /\ op = "none"
        /\ op' = "find_large_files_windows"
        /\ arg' = [num |-> num, den |-> HalfByteUnit]
        /\ res' = r.files
        /\ listed' = r.listed
        /\ again' = FALSE
        /\ UNCHANGED <<fs, current_path, should_continue>>

ListDirectory ==
    \E p \in ListPaths :
        /\ op = "none"
        /\ op' = "list_directory"
        /\ arg' = p
        /\ res' = list_directory(fs, p)
        /\ listed' = {p}
        /\ again' = FALSE
        /\ UNCHANGED <<fs, current_path, should_continue>>

\* the result has been shown and the menu is displayed again
ReturnToMenu ==
    /\ op # "none"
    /\ op' = "none"
    /\ arg' = 0
    /\ res' = 0
    /\ listed' = {}
    /\ again' = FALSE
    /\ UNCHANGED <<fs, current_path, should_continue>>

\* the same aggregation is asked for once more: the handler is called again
\* with the same arguments
RunAgain ==
    /\ ~again
    /\ op \in {"count_files", "count_bytes", "analyze_windows_file_types",
               "_get_largest_files"}
    /\ op' = op
    /\ arg' = arg
    /\ again' = TRUE
    /\ UNCHANGED <<fs, current_path, should_continue>>
    /\ CASE op = "count_files" ->
              LET r == count_files(fs, <<>>) IN
              /\ res' = [success |-> r.success, count |-> r.count]
              /\ listed' = r.listed
         [] op = "count_bytes" ->
              LET r == count_bytes(fs, <<>>) IN
              /\ res' = [success |-> r.success, total |-> r.total]
              /\ listed' = r.listed
         [] op = "analyze_windows_file_types" ->
              LET r == analyze_windows_file_types(fs, <<>>) IN
              /\ res' = [success |-> r.success, stats |-> r.stats]
              /\ listed' = r.listed
         [] op = "_get_largest_files" ->
              /\ res' = get_largest_files(fs, <<>>, arg)
              /\ listed' = collect_files(fs, <<>>).listed

Next ==
    \/ CountFiles
    \/ CountBytes
    \/ AnalyzeTypes
    \/ LargestFiles
    \/ FindByExtension
    \/ FindFiles
    \/ FindLargeFiles
    \/ ListDirectory
    \/ RunAgain
    \/ ReturnToMenu

Spec == Init /\ [][Next]_vars

\* the same program started on a tree of ScenarioSystems
InitScenario ==
    /\ fs \in ScenarioSystems
    /\ op = "none"
    /\ arg = 0
    /\ res = 0
    /\ listed = {}
    /\ again = FALSE
    /\ current_path = RootPath
    /\ should_continue = TRUE

SpecScenario == InitScenario /\ [][Next]_vars

(***************************************************************************)
(* The attribute statistics, on the trees whose entries carry attributes   *)
(***************************************************************************)
InitAttrs ==
    /\ fs \in AttrSystems
    /\ op = "none"
    /\ arg = 0
    /\ res = 0
    /\ listed = {}
    /\ again = FALSE
    /\ current_path = RootPath
    /\ should_continue = TRUE

AttributeStats ==
    LET r == get_windows_file_attributes_stats(fs, <<>>) IN
    /\ op = "none"
    /\ op' = "get_windows_file_attributes_stats"
    /\ arg' = 0
    /\ res' = r.stats
    /\ listed' = r.listed
    /\ again' = FALSE
    /\ UNCHANGED <<fs, current_path, should_continue>>

NextAttrs ==
    \/ AttributeStats
    \/ ReturnToMenu

SpecAttrs == InitAttrs /\ [][NextAttrs]_vars

(***************************************************************************)
(* The main loop and the path functions, on the drive C:.  The program is  *)
(* started in a directory of the drive or in one that has been removed.    *)
(***************************************************************************)
InitNav ==
    /\ fs \in NavSystems
    /\ op = "none"
    /\ arg = 0
    /\ res = 0
    /\ listed = {}
    /\ again = FALSE
    /\ current_path \in {s \in StartPaths : s \in GonePaths \/ is_dir(fs, s)}
    /\ should_continue = TRUE

\* one round of main_loop: a command is read and run_windows_command
\* returns the path and the flag the next round starts from; the navigation
\* menu is answered only when it is shown, the question for the
\* subdirectory only when it is asked
MainLoop ==
    \E command \in Commands :
        LET nav == CommandKey(strip(command)) \in NavCommands IN
        \E choice \in IF nav THEN NavChoices ELSE {<<>>} :
            \E dir_choice \in IF nav /\ strip(choice) = Choice2
                               THEN DirChoices ELSE {<<>>} :
                LET r == run_windows_command(fs, strip(command), current_path,
                                             choice, dir_choice)
                IN /\ op = "none"
                   /\ should_continue
                   /\ op' = "run_windows_command"
                   /\ arg' = [command |-> command,
                              current_path |-> current_path,
                              choice |-> choice,
                              dir_choice |-> dir_choice]
                   /\ res' = r
                   /\ current_path' = r.path
                   /\ should_continue' = r.should_continue
                   /\ listed' = {}
                   /\ again' = FALSE
                   /\ UNCHANGED fs

ValidatePath ==
    \E path \in NavStrings :
        /\ op = "none"
        /\ op' = "validate_windows_path"
        /\ arg' = path
        /\ res' = validate_windows_path(fs, path)
        /\ listed' = {}
        /\ again' = FALSE
        /\ UNCHANGED <<fs, current_path, should_continue>>

MoveUp ==
    \E path \in NavStrings :
        /\ op = "none"
        /\ op' = "move_up"
        /\ arg' = path
        /\ res' = move_up(fs, path)
        /\ listed' = {}
        /\ again' = FALSE
        /\ UNCHANGED <<fs, current_path, should_continue>>

MoveDown ==
    \E target_dir \in Targets_move_down :
        /\ op = "none"
        /\ op' = "move_down"
        /\ arg' = [current_path |-> current_path, target_dir |-> target_dir]
        /\ res' = move_down(fs, current_path, target_dir)
        /\ listed' = {}
        /\ again' = FALSE
        /\ UNCHANGED <<fs, current_path, should_continue>>

NextNav ==
    \/ MainLoop
    \/ ValidatePath
    \/ MoveUp
    \/ MoveDown
    \/ ReturnToMenu

SpecNav == InitNav /\ [][NextNav]_vars

(***************************************************************************)
(* The system-file search on a drive with the Windows directories          *)
(***************************************************************************)
InitSystem ==
    /\ fs \in SystemTrees
    /\ op = "none"
    /\ arg = 0
    /\ res = 0
    /\ listed = {}
    /\ again = FALSE
    /\ current_path = RootPath
    /\ should_continue = TRUE

FindSystemFiles ==
    \E path \in SystemPathArgs :
        /\ op = "none"
        /\ op' = "find_windows_system_files"
        /\ arg' = path
        /\ res' = find_windows_system_files(fs, path)
        /\ listed' = {}
        /\ again' = FALSE
        /\ UNCHANGED <<fs, current_path, should_continue>>

NextSystem ==
    \/ FindSystemFiles
    \/ ReturnToMenu

SpecSystem == InitSystem /\ [][NextSystem]_vars

(***************************************************************************)
(* What the tree holds, computed from the file system alone                *)
(***************************************************************************)
FilesOf(f) == f.present \cap FileSlots

RECURSIVE SumSize(_, _)
SumSize(f, S) ==
    IF S = {} THEN 0
    ELSE LET x == CHOOSE y \in S : TRUE IN f.size[x] + SumSize(f, S \ {x})

\* the directories of the tree that cannot be listed
Unreadable(f) == {d \in DirSlots \cap f.present : f.acc[d] # "rx"}

\* entry s lies below the root through real, listable directories only
Visible(f, s) ==
    /\ f.root = "ok"
    /\ s \in f.present
    /\ \A d \in Chain(Parent(s)) \ {Root} : d \in f.present /\ f.acc[d] = "rx"

\* the tree without directory d and everything under it
Removed(f, d) == [f EXCEPT !.present = {s \in @ : d \notin Chain(s)}]

Range(s) == {s[i] : i \in DOMAIN s}

NoRepeats(s) == \A i, j \in DOMAIN s : s[i] = s[j] => i = j

\* the sum of the 'count' fields of a histogram
RECURSIVE SumCount(_)
SumCount(stats) ==
    IF DOMAIN stats = {} THEN 0
    ELSE LET k == CHOOSE x \in DOMAIN stats : TRUE
         IN stats[k].count + SumCount([x \in DOMAIN stats \ {k} |-> stats[x]])

\* a listable root that holds one listable, empty directory and no file
NothingFound ==
    [root |-> "ok", present |-> {"sub"},
     size |-> [s \in FileSlots |-> 1],
     acc |-> [d \in DirSlots |-> "rx"],
     target |-> [l \in LinkSlots |-> CHOOSE t \in Targets(l) : TRUE]]

(***************************************************************************)
(* Claims                                                                  *)
(***************************************************************************)
\* C1: in a tree with every directory listable and no link directory,
\* count_files returns success with the number of files of the tree and
\* count_bytes returns success with the sum of their sizes.
C1_Completeness ==
    (/\ fs.root = "ok"
     /\ Unreadable(fs) = {}
     /\ fs.present \cap LinkSlots = {})
    => /\ op = "count_files"
          => res = [success |-> TRUE, count |-> Cardinality(FilesOf(fs))]
       /\ op = "count_bytes"
          => res = [success |-> TRUE, total |-> SumSize(fs, FilesOf(fs))]

\* C2: with exactly one directory below the root unreadable, count_files
\* of the root succeeds and its count is the count over the tree with that
\* directory and everything under it removed.
C2_FailureAbsorption ==
    (/\ op = "count_files"
     /\ fs.root = "ok"
     /\ Cardinality(Unreadable(fs)) = 1)
    => LET d == CHOOSE x \in Unreadable(fs) : TRUE
       IN /\ res.success
          /\ res.count = count_files(Removed(fs, d), <<>>).count

\* C3: on a listable root without entries count_files, count_bytes and
\* analyze_windows_file_types return success with 0, 0 and the empty
\* histogram.
C3_EmptyDirectoryIsSuccess ==
    (/\ fs.root = "ok"
     /\ \A s \in fs.present : Parent(s) # Root)
    => /\ op = "count_files" => res = [success |-> TRUE, count |-> 0]
       /\ op = "count_bytes" => res = [success |-> TRUE, total |-> 0]
       /\ op = "analyze_windows_file_types"
          => res = [success |-> TRUE, stats |-> EmptyDict]

\* C4: when the root cannot be listed (missing, a regular file, or not
\* permitted) count_files and count_bytes return (False, 0),
\* analyze_windows_file_types returns (False, {}), and nothing but the
\* root was passed to list_directory.
C4_RootFailure ==
    fs.root # "ok"
    => /\ op = "count_files" => res = [success |-> FALSE, count |-> 0]
       /\ op = "count_bytes" => res = [success |-> FALSE, total |-> 0]
       /\ op = "analyze_windows_file_types"
          => res = [success |-> FALSE, stats |-> EmptyDict]
       /\ op \in {"count_files", "count_bytes", "analyze_windows_file_types"}
          => listed = {<<>>}

\* C4 witness: count_files has run on a root that holds entries and may not
\* be listed.
C4_Witness ==
    /\ op = "count_files"
    /\ fs.root = "denied"
    /\ "a" \in fs.present

\* C5: the value an operation returns for a root that cannot be listed
\* differs from the value it returns for a listable tree in which nothing
\* is found.
C5_RootFailureDistinguishable ==
    fs.root # "ok"
    => /\ op = "count_files"
          => LET r == count_files(NothingFound, <<>>)
             IN res # [success |-> r.success, count |-> r.count]
       /\ op = "count_bytes"
          => LET r == count_bytes(NothingFound, <<>>)
             IN res # [success |-> r.success, total |-> r.total]
       /\ op = "analyze_windows_file_types"
          => LET r == analyze_windows_file_types(NothingFound, <<>>)
             IN res # [success |-> r.success, stats |-> r.stats]
       /\ op = "_get_largest_files"
          => res # get_largest_files(NothingFound, <<>>, arg)
       /\ op = "find_by_windows_extension"
          => res # find_by_windows_extension(NothingFound, arg, <<>>).files

\* C6: in a tree where a directory holds a link to one of its ancestors,
\* no operation counts or reports a file a second time.
C6_NoDoubleCount ==
    "up" \in fs.present
    => /\ op = "count_files" => res.count <= Cardinality(FilesOf(fs))
       /\ op = "count_bytes" => res.total <= SumSize(fs, FilesOf(fs))
       /\ op = "analyze_windows_file_types"
          => SumCount(res.stats) <= Cardinality(FilesOf(fs))
       /\ op \in {"_get_largest_files", "find_by_windows_extension"}
          => NoRepeats(res)

\* C7: no operation passes to list_directory a path that goes through a
\* link entry.
C7_NoLinkListed == \A p \in listed : LinkCount(p) = 0

\* C8: the total of count_bytes is the sum of the sizes of the files that
\* lie below the root through real, listable directories: a link directory
\* adds neither the files under its target nor a size of its own, and its
\* siblings are summed.
C8_LinksAddNothing ==
    (op = "count_bytes" /\ res.success)
    => res.total = SumSize(fs, {s \in FilesOf(fs) : Visible(fs, s)})

\* C8 witness: count_bytes has run on a root that holds a file next to a
\* link to a listable directory with a file in it.
C8_Witness ==
    /\ op = "count_bytes"
    /\ res.success
    /\ {"a", "lnk", "sub", "e", "F"} \subseteq fs.present
    /\ fs.target["lnk"] = "e"
    /\ Unreadable(fs) = {}
    /\ res.total = SumSize(fs, FilesOf(fs))

\* C9: _get_largest_files(path, n) returns at most n entries, in
\* non-increasing order of size, and no collected file outside the list is
\* larger than a file in it.
C9_TopN ==
    op = "_get_largest_files"
    => LET collected == collect_files(fs, <<>>).files
       IN /\ Len(res) <= arg
          /\ \A i \in 1..(Len(res) - 1) : res[i][2] >= res[i + 1][2]
          /\ Range(res) \subseteq Range(collected)
          /\ \A x \in Range(collected) \ Range(res) :
                \A y \in Range(res) : x[2] <= y[2]

\* C9 witness: more files were collected than n > 0 asked for, of different
\* sizes, so the list was cut.
C9_Witness ==
    /\ op = "_get_largest_files"
    /\ arg >= 1
    /\ Len(res) = arg
    /\ Len(collect_files(fs, <<>>).files) > arg
    /\ \E x, y \in Range(collect_files(fs, <<>>).files) : x[2] < y[2]

\* C10: two files of equal size in the result of _get_largest_files stand
\* in ascending order of their full paths.
C10_TieBreakByPath ==
    op = "_get_largest_files"
    => \A i, j \in 1..Len(res) :
          (i < j /\ res[i][2] = res[j][2]) => LexLess(res[i][1], res[j][1])

RECURSIVE RealPath(_)
RealPath(s) ==
    IF Parent(s) = Root THEN <<s>> ELSE Append(RealPath(Parent(s)), s)

\* the files of the tree that lie below the root through real, listable
\* directories
VisibleFiles(f) == {s \in FilesOf(f) : Visible(f, s)}

\* the requests 'txt', '.TXT' and '.txt', and what each of them stands for
TxtVariants ==
    { << <<116, 120, 116>> >>, << <<46, 84, 88, 84>> >>,
      << <<46, 116, 120, 116>> >> }
DotTxt == <<46, 116, 120, 116>>
DotBin == <<46, 98, 105, 110>>

\* the normalised set of a request: every entry without the white space
\* around it, in lower case, with a leading dot
NormalizedSet(request) ==
    { LET l == Lower(strip(request[i]))
      IN IF l # <<>> /\ l[1] = Dot THEN l ELSE <<Dot>> \o l :
      i \in 1..Len(request) }

\* C12: find_by_windows_extension returns the same list for the requests
\* 'txt', '.TXT' and '.txt' (the tree's counterpart of 'exe', '.EXE',
\* '.exe'), and in general returns a file, once, exactly when the file lies
\* in the tree below listable real directories and its extension in lower
\* case is in the normalised set of the request.
C12_ExtensionNormalization ==
    op = "find_by_windows_extension"
    => /\ arg \in TxtVariants
          => \A other \in TxtVariants :
                res = find_by_windows_extension(fs, other, <<>>).files
       /\ NoRepeats(res)
       /\ Range(res) =
            { PathStr(RealPath(s)) :
                s \in { x \in VisibleFiles(fs) :
                          Lower(splitext(Name(x))) \in NormalizedSet(arg) } }

\* C12 witness: '.TXT' was asked for and both a.txt and B.TXT, two levels
\* apart, were returned.
C12_Witness ==
    /\ op = "find_by_windows_extension"
    /\ arg = << <<46, 84, 88, 84>> >>
    /\ PathStr(<<"a">>) \in Range(res)
    /\ PathStr(<<"sub", "e", "F">>) \in Range(res)

\* C13: every key of the histogram analyze_windows_file_types returns is
\* the sentinel '(no extension)' or a lower-case string that starts with a
\* dot; the keys are those of the files of the tree, and a bucket's count
\* and size are the number and the total size of the files, at any depth,
\* whose extension is its key up to letter case.
C13_HistogramKeys ==
    op = "analyze_windows_file_types" /\ res.success
    => LET bucket(s) == IF splitext(Name(s)) = <<>> THEN NoExtension
                        ELSE Lower(splitext(Name(s)))
           members(k) == {s \in VisibleFiles(fs) : bucket(s) = k}
       IN /\ \A k \in DOMAIN res.stats :
                \/ k = NoExtension
                \/ Len(k) >= 1 /\ k[1] = Dot /\ k = Lower(k)
          /\ DOMAIN res.stats = {bucket(s) : s \in VisibleFiles(fs)}
          /\ \A k \in DOMAIN res.stats :
                /\ res.stats[k].count = Cardinality(members(k))
                /\ res.stats[k].size = SumSize(fs, members(k))

\* C13 witness: a.txt, b.TXT and sub\e\B.TXT share the bucket '.txt' and
\* README is counted under the sentinel.
C13_Witness ==
    /\ op = "analyze_windows_file_types"
    /\ {"a", "b", "F", "n"} \subseteq fs.present
    /\ res.success
    /\ res.stats[DotTxt].count = 3
    /\ res.stats[DotTxt].size = fs.size["a"] + fs.size["b"] + fs.size["F"]
    /\ res.stats[NoExtension].count = 1

\* the tree root/{a.txt (100 B), b.TXT (50 B), sub/{c.bin (10 B)}}
ScenarioTree ==
    /\ fs.present = {"a", "b", "sub", "c"}
    /\ fs.size["a"] = 100
    /\ fs.size["b"] = 50
    /\ fs.size["c"] = 10

\* C14: over the tree root/{a.txt (100 B), b.TXT (50 B), sub/{c.bin (10 B)}}
\* count_files returns 3, count_bytes returns 160, the histogram has exactly
\* the buckets '.txt' (count 2, size 150) and '.bin' (count 1, size 10), and
\* _get_largest_files with n = 1 returns [(root\a.txt, 100)].
C14_Scenario ==
    ScenarioTree
    => /\ op = "count_files" => res = [success |-> TRUE, count |-> 3]
       /\ op = "count_bytes" => res = [success |-> TRUE, total |-> 160]
       /\ op = "analyze_windows_file_types"
          => /\ res.success
             /\ DOMAIN res.stats = {DotTxt, DotBin}
             /\ res.stats[DotTxt].count = 2 /\ res.stats[DotTxt].size = 150
             /\ res.stats[DotBin].count = 1 /\ res.stats[DotBin].size = 10
       /\ op = "_get_largest_files" /\ arg = 1
          => res = << <<(<<114, 111, 111, 116, 92, 97, 46, 116, 120, 116>>), 100>> >>

\* C14 witness: the histogram of that tree was computed.
C14_Witness ==
    /\ ScenarioTree
    /\ op = "analyze_windows_file_types"
    /\ res.stats[DotTxt].size = 150

\* name[j..] matches pat[i..] when '*' stands for zero or more characters,
\* '?' for exactly one and every other character for itself, letters up to
\* case unless exact
RECURSIVE WildcardMatch(_, _, _, _, _)
WildcardMatch(pat, i, name, j, exact) ==
    IF i > Len(pat) THEN j > Len(name)
    ELSE IF pat[i] = 42
    THEN \E k \in j..(Len(name) + 1) : WildcardMatch(pat, i + 1, name, k, exact)
    ELSE /\ j <= Len(name)
         /\ \/ pat[i] = 63
            \/ pat[i] = name[j]
            \/ ~exact /\ Lower(<<pat[i]>>) = Lower(<<name[j]>>)
         /\ WildcardMatch(pat, i + 1, name, j + 1, exact)

\* C15: find_files_windows returns a file exactly when the file lies in the
\* tree below listable real directories and its whole name matches the
\* wildcard pattern, '*' standing for zero or more characters and '?' for
\* exactly one, letters compared up to case unless case_sensitive.
C15_PatternFilter ==
    op = "find_files_windows"
    => Range(res) =
         { PathStr(RealPath(s)) :
             s \in { x \in VisibleFiles(fs) :
                       WildcardMatch(arg.pattern, 1, Name(x), 1,
                                     arg.case_sensitive) } }

\* C16: find_large_files_windows returns exactly the files below listable
\* real directories whose size in bytes is at least
\* min_size_mb * 1024 * 1024, min_size_mb being arg.num / arg.den.
C16_SizeMembership ==
    op = "find_large_files_windows"
    => { res[i].path : i \in DOMAIN res } =
         { PathStr(RealPath(s)) :
             s \in { x \in VisibleFiles(fs) :
                       fs.size[x] * arg.den >= arg.num * 1024 * 1024 } }

\* C17: of two consecutive results of find_large_files_windows the earlier
\* one has at least the later one's size in bytes.
C17_SizeOrdering ==
    op = "find_large_files_windows"
    => \A i \in 1..(Len(res) - 1) : res[i].size_bytes >= res[i + 1].size_bytes

\* C18: in a successful result of list_directory no file stands before a
\* directory, and of two directories, or of two files, the later one's name
\* in lower case is not smaller than the earlier one's.
C18_ListingOrder ==
    op = "list_directory" /\ res.success
    => \A i, j \in DOMAIN res.items :
          i < j
          => /\ res.items[i].type = "file" => res.items[j].type = "file"
             /\ res.items[i].type = res.items[j].type
                => ~LexLess(Lower(res.items[j].name), Lower(res.items[i].name))

\* C18 witness: the root was listed and holds sub, a.txt, b.TXT and README,
\* whose raw names sort README first.
C18_Witness ==
    /\ op = "list_directory"
    /\ arg = <<>>
    /\ res.success
    /\ {"sub", "a", "b", "n"} \subseteq fs.present
    /\ Len(res.items) >= 4
    /\ res.items[Len(res.items)].slot = "n"

\* C19: list_directory returns success exactly when the directory could be
\* listed, and the failure result carries an empty list.
C19_FailureSignal ==
    op = "list_directory"
    => /\ res.success <=> Listable(fs, arg)
       /\ ~res.success => res.items = <<>>

\* the entries the directory at path p holds
ChildrenAt(f, p) == {s \in f.present : Parent(s) = NodeOf(f, p)}

\* C20 as stated: a successful listing of a directory that could be listed
\* holds an entry for every child of the directory.
C20_AllOrNothing ==
    op = "list_directory" /\ res.success /\ Listable(fs, arg)
    => {res.items[i].slot : i \in DOMAIN res.items} = ChildrenAt(fs, arg)

\* C20, amended: a successful listing of a directory that could be listed
\* holds exactly one entry for every child whose information can be
\* obtained; a child whose information cannot be obtained is left out.
C20_SkipsUnreadableChildren ==
    op = "list_directory" /\ res.success /\ Listable(fs, arg)
    => /\ {res.items[i].slot : i \in DOMAIN res.items} =
            {s \in ChildrenAt(fs, arg) : StatOk(fs, arg, s)}
       /\ \A i, j \in DOMAIN res.items :
             res.items[i].slot = res.items[j].slot => i = j

\* C20 witness: the root was listed, it holds a link whose target cannot be
\* reached, and the listing returned holds the other children only.
C20_Witness ==
    /\ op = "list_directory"
    /\ arg = <<>>
    /\ res.success
    /\ Listable(fs, arg)
    /\ "lnk" \in fs.present
    /\ ~StatOk(fs, arg, "lnk")
    /\ Len(res.items) >= 2
    /\ \A i \in DOMAIN res.items : res.items[i].slot # "lnk"

\* C21: each counter get_windows_file_attributes_stats returns is the
\* number of files, below the root through listable real directories, that
\* carry the attribute: it is at most the number of files of the tree, a
\* directory adds to no counter, and a file that is hidden, system and
\* readonly adds one to each of the three.
C21_AttributeCounters ==
    op = "get_windows_file_attributes_stats"
    => \A k \in Attributes :
          /\ res[k] <= Cardinality(FilesOf(fs))
          /\ res[k] = Cardinality({s \in VisibleFiles(fs) : k \in fs.attrs[s]})

\* C21 witness: a.txt is hidden, system and readonly, the directory sub
\* carries the three attributes as well and c.bin none: every counter is 1.
C21_Witness ==
    /\ op = "get_windows_file_attributes_stats"
    /\ {"a", "sub", "c"} \subseteq fs.present
    /\ fs.attrs["a"] = Attributes
    /\ fs.attrs["sub"] = Attributes
    /\ fs.attrs["c"] = {}
    /\ res = [hidden |-> 1, system |-> 1, readonly |-> 1]

\* the path string names an entry of the drive
NamesEntry(f, path) ==
    \E s \in NavSlots \cap f.present : Lower(NavStr(SlotPath(s))) = Lower(path)

\* the path string names a directory of the drive
NamesDirectory(f, path) ==
    \/ Lower(path) = Lower(DriveRoot)
    \/ \E d \in NavDirSlots \cap f.present :
          Lower(NavStr(SlotPath(d))) = Lower(path)

\* C22: validate_windows_path accepts a path that exists and holds no
\* prohibited character whenever it is at most 260 characters long, and
\* gives the length as the reason for a rejection only when the path is
\* longer than 260 characters.
C22_LengthLimit ==
    op = "validate_windows_path"
    => /\ /\ NamesDirectory(fs, arg) \/ NamesEntry(fs, arg)
          /\ \A i \in 1..Len(arg) :
                arg[i] \notin {60, 62, 34, 124, 63, 42} /\ arg[i] >= 32
          /\ Len(arg) <= 260
          => res.is_valid
       /\ res.error = "Path length exceeds 260 characters." => Len(arg) > 260

\* C23: move_down returns (True, joined), joined being current_path joined
\* with target_dir without the separators and spaces around it, exactly
\* when target_dir is not blank and joined names an existing directory that
\* passes validate_windows_path; in every other case it returns
\* (False, current_path).
C23_MoveDown ==
    op = "move_down"
    => LET target == strip_chars(arg.target_dir, {92, 47, 32})
           joined == os_path_join(arg.current_path, target)
           moves == /\ target # <<>>
                    /\ NamesDirectory(fs, joined)
                    /\ validate_windows_path(fs, joined).is_valid
       IN IF moves THEN res = [success |-> TRUE, path |-> joined]
          ELSE res = [success |-> FALSE, path |-> arg.current_path]

\* C23 witness: ' sub\' was asked for in the root of the drive and move_down
\* returned C:\sub.
C23_Witness ==
    /\ op = "move_down"
    /\ arg.current_path = DriveRoot
    /\ arg.target_dir = <<32, 115, 117, 98, 92>>
    /\ res = [success |-> TRUE, path |-> <<67, 58, 92, 115, 117, 98>>]

\* C24: for a current_path that is not empty, move_up returns the parent
\* path when the parent is valid and current_path otherwise; at the root of
\* the drive, which is its own parent, it returns that path.
C24_MoveUp ==
    op = "move_up" /\ arg # <<>>
    => LET parent == get_parent_path(arg)
       IN /\ res \in {parent, arg}
          /\ validate_windows_path(fs, parent).is_valid => res = parent
          /\ ~validate_windows_path(fs, parent).is_valid => res = arg

\* C25: run_windows_command returns the path it was given for every
\* command that, trimmed and in lower case, is not '1', 'nav' or
\* 'navigation', and returns should_continue = False exactly for '0', 'exit'
\* and 'quit'.
C25_CommandRouting ==
    op = "run_windows_command"
    => LET key == strip(Lower(arg.command))
       IN /\ key \notin {<<49>>, <<110, 97, 118>>,
                         <<110, 97, 118, 105, 103, 97, 116, 105, 111, 110>>}
             => res.path = arg.current_path
          /\ res.should_continue
             <=> key \notin {<<48>>, <<101, 120, 105, 116>>,
                             <<113, 117, 105, 116>>}

\* C25 witness: 'Quit' was typed and the program stops with the path it had.
C25_Witness ==
    /\ op = "run_windows_command"
    /\ arg.command = <<81, 117, 105, 116>>
    /\ ~res.should_continue
    /\ ~should_continue
    /\ current_path = arg.current_path

\* C30: the path the main loop holds is never empty, and after a command it
\* is the path the command started from or a path that passes
\* validate_windows_path and is the parent of that path or an existing
\* directory directly below it; a navigation step that fails leaves the
\* path as it was.
C30_CurrentPath ==
    /\ current_path # <<>>
    /\ op = "run_windows_command"
       => /\ current_path = res.path
          /\ \/ current_path = arg.current_path
             \/ /\ validate_windows_path(fs, current_path).is_valid
                /\ \/ current_path = get_parent_path(arg.current_path)
                   \/ /\ get_parent_path(current_path) = arg.current_path
                      /\ NamesDirectory(fs, current_path)
          /\ strip(arg.choice) = Choice2
             /\ ~move_down(fs, arg.current_path,
                           IF IsNumber(strip(arg.dir_choice))
                           THEN <<>> ELSE strip(arg.dir_choice)).success
             /\ ~IsNumber(strip(arg.dir_choice))
             => current_path = arg.current_path

\* C30 witness: the second directory of the list was chosen by its number
\* and the loop now holds C:\sub\e, two steps below the start.
C30_Witness ==
    /\ op = "run_windows_command"
    /\ current_path = <<67, 58, 92, 115, 117, 98, 92, 101>>
    /\ arg.current_path = <<67, 58, 92, 115, 117, 98>>
    /\ IsNumber(strip(arg.dir_choice))

\* the sum of the 'size' fields over all buckets of a histogram
RECURSIVE SumBucketSize(_)
SumBucketSize(stats) ==
    IF DOMAIN stats = {} THEN 0
    ELSE LET k == CHOOSE x \in DOMAIN stats : TRUE
         IN stats[k].size + SumBucketSize([x \in DOMAIN stats \ {k} |-> stats[x]])

\* C27: on every tree on which analyze_windows_file_types and count_files
\* both succeed, the 'count' fields of the buckets add up to the count that
\* count_files returns, also when the tree holds unreadable directories or
\* link directories.
C27_CountsReconcile ==
    /\ op = "analyze_windows_file_types"
    /\ res.success
    /\ count_files(fs, <<>>).success
    => SumCount(res.stats) = count_files(fs, <<>>).count

\* C28: on every tree on which analyze_windows_file_types and count_bytes
\* both succeed, the 'size' fields of the buckets add up to the total that
\* count_bytes returns, also when the tree holds unreadable directories or
\* link directories.
C28_BytesReconcile ==
    /\ op = "analyze_windows_file_types"
    /\ res.success
    /\ count_bytes(fs, <<>>).success
    => SumBucketSize(res.stats) = count_bytes(fs, <<>>).total

\* C28 witness: the histogram was built on a tree with a link directory and
\* an unreadable directory that both hold a file, and a file of the root.
C28_Witness ==
    /\ op = "analyze_windows_file_types"
    /\ res.success
    /\ count_bytes(fs, <<>>).success
    /\ SumBucketSize(res.stats) > 0
    /\ \E l \in LinkSlots \cap fs.present :
          \E s \in FileSlots \cap fs.present : Parent(s) = fs.target[l]
    /\ \E d \in Unreadable(fs) : \E s \in FileSlots \cap fs.present : Parent(s) = d

\* sequence s is a sub-list of sequence t: its elements occur in t in the
\* same relative order
RECURSIVE IsSubList(_, _)
IsSubList(s, t) ==
    IF s = <<>> THEN TRUE
    ELSE IF t = <<>> THEN FALSE
    ELSE IF Head(s) = Head(t) THEN IsSubList(Tail(s), Tail(t))
    ELSE IsSubList(s, Tail(t))

\* C29: for every pattern and tree, the list find_files_windows returns with
\* case_sensitive=True is a sub-list, in the same relative order, of the
\* list it returns with case_sensitive=False.
C29_CaseNarrows ==
    op = "find_files_windows" /\ arg.case_sensitive
    => IsSubList(res, find_files_windows(fs, arg.pattern, <<>>, FALSE).files)

\* C26: the list that find_windows_system_files returns without a path
\* holds every matching file path at most once.
C26_NoDuplicates ==
    op = "find_windows_system_files" /\ ~arg.given => NoRepeats(res)
====
